---- MODULE Spec2Model ----
(***************************************************************************)
(* HatakeMobile: the network-state observer with its offline queue and its *)
(* listeners (src/src/utils/network.ts), the local persistence helper      *)
(* (src/src/utils/storage.ts), the start of the app (src/App.tsx) and the  *)
(* auth state behind the root navigator (src/unnamed/part_004, part_002).  *)
(*                                                                         *)
(* JavaScript runs one callback at a time; an async function gives up the  *)
(* thread at every await of a native operation (AsyncStorage, a network    *)
(* request, executeOfflineAction).  Each action below is one such          *)
(* uninterrupted stretch of a handler: from its call, or from the          *)
(* completion of the operation it awaited, to its next await or its end.   *)
(*                                                                         *)
(* AsyncStorage holds JSON text.  A stored value is modelled by what       *)
(* JSON.parse(JSON.stringify(v)) yields: the offline queue is a list of    *)
(* {id, action, data, timestamp} items (here [id, payload]), and a cache   *)
(* item loses its expiresAt property when that property is undefined.      *)
(***************************************************************************)
EXTENDS Integers, Sequences, FiniteSets, TLC

\* ------------------------------------------------------------------ bounds
MaxPersisted == 1     \* actions an earlier run of the app left under 'offline_queue'
MaxAdds == 1          \* calls of NetworkManager.addToOfflineQueue in this run
MaxRuns == 2          \* activations of processOfflineQueue that iterate a non-empty queue

MaxDrafts == 3        \* drafts that are held at a time
MaxTicks == 2         \* advances of the clock
StartTime == 1        \* Date.now() when the app starts

MaxAuthEvents == 3    \* auth-state events of the identity service
MaxListeners == 3     \* calls of addNetworkListener
MaxUnsubscribeCalls == 2      \* calls of one unsubscribe function
MaxLoadCalls == 3     \* calls of loadFunction
MaxSends == 2         \* activations of sendMessage that pass its guards

\* ------------------------------------------------------- program constants
MaxRetries == 3       \* network.ts:124  if (item.retryCount >= 3)
RequestCacheMinutes == 30     \* network.ts:190  setCache(cacheKey, result, 30)
MsPerMinute == 60 * 1000      \* storage.ts:70
MaxRecent == 10               \* storage.ts:193  .slice(0, 10)
PageSize == 20                \* performance.ts:109  pageSize: number = 20

OfflineQueueKey == <<"offline_queue">>

VARIABLES
  networkState,   \* NetworkManager.networkState
  offlineQueue,   \* NetworkManager.offlineQueue: the contents of the array it refers to
  retryCount,     \* item.retryCount of the item objects that have one, by item id
  runs,           \* the activations of processOfflineQueue, in start order
  adds,           \* the activations of NetworkManager.addToOfflineQueue
  load,           \* initialize()'s  this.offlineQueue = await getOfflineQueue();
                  \* load.loaded is history: the list it assigned
  disk,           \* AsyncStorage: key -> stored value, keys absent when not stored
  attempts,       \* history: calls of executeOfflineAction, by item id
  now,            \* Date.now(), in milliseconds
  ticks,          \* how often the clock has advanced
  request,        \* the makeRequest call that awaits requestFn, if any
  result,         \* what the StorageManager or makeRequest call that has just completed returned
  entry,          \* history: the last successful setCache of every cache key
  saved,          \* history: the drafts saved and not deleted, in the order saved
  user,           \* AuthProvider's state `user`
  loading,        \* AuthProvider's state `loading`
  callbacks,      \* the activations of the onAuthStateChanged callback, in event order
  listeners,      \* NetworkManager.listeners; the registration of an element is history
  registrations,  \* history: the calls of addNetworkListener, in call order
  notified,       \* history: what the NetInfo listener did on the last connectivity event
  loader,         \* createLazyLoader's closure: currentPage, loading, hasMore
  loadCalls,      \* history: the calls of loadFunction, in call order
  returned,       \* what the loadMore call that completed last returned, if any
  chat,           \* ChatScreen's state: inputText, sending, conversationId; its last alert
  sends,          \* the activations of sendMessage that passed its guards, in call order
  firestore       \* the database: the message documents the screen added, and the
                  \* lastMessage of its conversation document

queueVars == <<offlineQueue, retryCount, runs, adds, load, attempts>>
cacheVars == <<request, entry>>
storageVars == <<now, ticks, result, cacheVars, saved>>
authVars == <<user, loading, callbacks>>
listenerVars == <<listeners, registrations, notified>>
loaderVars == <<loader, loadCalls, returned>>
chatVars == <<chat, sends, firestore>>
screenVars == <<loaderVars, chatVars>>
uiVars == <<authVars, listenerVars, screenVars>>
vars == <<networkState, disk, queueVars, storageVars, uiVars>>

\* ------------------------------------------------------------ AsyncStorage
\* storage.ts:37-45 getItem: the parsed value of a key that holds one ...
getItem(key) == disk[key]

\* ... and null for a key that holds nothing (jsonValue != null)
isNull(key) == key \notin DOMAIN disk

\* storage.ts:27-35 setItem, the write succeeding
setItem(key, value) == [k \in (DOMAIN disk) \cup {key} |-> IF k = key THEN value ELSE disk[k]]

\* storage.ts:47-54 removeItem
removeItem(key) == [k \in (DOMAIN disk) \ {key} |-> disk[k]]

\* storage.ts:152,166,171   await this.getItem('offline_queue') || []
ReadOfflineQueue == IF isNull(OfflineQueueKey) THEN <<>> ELSE getItem(OfflineQueueKey)

\* ------------------------------------------------------------ helpers
Ids(q) == {q[i].id : i \in 1..Len(q)}
Payloads(q) == {q[i].payload : i \in 1..Len(q)}

\* network.ts:121  (item.retryCount || 0) + 1; an item parsed from storage
\* has no retryCount property
NextRetryCount(id) == (IF id \in DOMAIN retryCount THEN retryCount[id] ELSE 0) + 1

\* network.ts:132-134 / storage.ts:172  filter by id
Without(q, ids) == SelectSeq(q, LAMBDA item : item.id \notin ids)

SeqToSet(s) == {s[i] : i \in 1..Len(s)}

\* network.ts:70-76
isOnline == networkState.isConnected /\ networkState.isInternetReachable
isOffline == ~isOnline

\* `${Date.now()}_${Math.random()}` never yields the same id twice: the a-th
\* call of NetworkManager.addToOfflineQueue makes one id for the in-memory item
\* (network.ts:93) and StorageManager.addToOfflineQueue makes another for the
\* stored item (storage.ts:154).  Ids 1..MaxPersisted are the earlier run's.
MemoryId(a) == MaxPersisted + 2 * a - 1
StorageId(a) == MaxPersisted + 2 * a
MaxId == StorageId(MaxAdds)

\* What NetInfo reports as <<isConnected, isInternetReachable>>: disconnected,
\* unknown, and connected with the internet reachable, unreachable or unknown
NetInfoStates ==
  {<<"false", "false">>, <<"null", "null">>,
   <<"true", "true">>, <<"true", "false">>, <<"true", "null">>}

\* network.ts:42-43  state.isConnected || false
OrFalse(v) == v = "true"

\* The queue an earlier run of the app left in storage: items 1..n as
\* StorageManager.addToOfflineQueue wrote them (storage.ts:153-158).
PersistedQueue(n) == [k \in 1..n |-> [id |-> k, payload |-> k]]

\* ------------------------------------------------- NetworkManager, queue
\* A run of processOfflineQueue iterates one array object: run.arr is its
\* contents and run.shared says that this.offlineQueue still refers to that
\* object, so that a push onto this.offlineQueue is seen by the loop.

\* network.ts:100  this.offlineQueue.push(queueItem), as the runs see it
Pushed(run, queueItem) ==
  IF run.shared THEN [run EXCEPT !.arr = Append(@, queueItem)] ELSE run

\* network.ts:63, 132  this.offlineQueue = <a new array>, as the runs see it
Detached(run) == [run EXCEPT !.shared = FALSE]

\* network.ts:113-115: the for-of loop takes the next element of the array it
\* iterates and calls executeOfflineAction on it; the await suspends the run.
BeginAttempt(run, idx) ==
  [run EXCEPT !.pc = "exec", !.idx = idx, !.attempted = Append(@, run.arr[idx].id)]

\* network.ts:104-115: processOfflineQueue up to its first await
NewRun ==
  BeginAttempt([pc |-> "start", arr |-> offlineQueue, shared |-> TRUE, idx |-> 0,
                processedItems |-> <<>>, rmIdx |-> 0, queue |-> <<>>,
                snapshot |-> offlineQueue, attempted |-> <<>>], 1)

\* a listener that replays the queue on every event that reports a connection
ShouldProcessAlways(wasOffline, isNowOnline) == isNowOnline

\* network.ts:57  if (wasOffline && isNowOnline)
ShouldProcess(wasOffline, isNowOnline) == wasOffline /\ isNowOnline

\* ---------------------------------------------- NetworkManager, listeners
\* this.listeners holds the functions passed to addNetworkListener.  Each
\* element carries, as history, the number of the addNetworkListener call that
\* pushed it; the code sees the function only.

\* The functions the screens register: "keep" and "log" only look at the
\* state; "once" calls the unsubscribe function it was returned when it is
\* invoked; "stopKeep" calls the one that was returned for "keep".
ListenerFns == {"keep", "log", "once", "stopKeep"}

\* the listener whose unsubscribe function this listener calls when invoked
Unsubscribes(fn) ==
  IF fn = "once" THEN <<"once">> ELSE IF fn = "stopKeep" THEN <<"keep">> ELSE <<>>

\* network.ts:83  this.listeners.indexOf(listener), counted from 1; 0 is -1
IndexOf(arr, listener) ==
  IF \E i \in 1..Len(arr) : arr[i].fn = listener
  THEN CHOOSE i \in 1..Len(arr) : arr[i].fn = listener /\ \A j \in 1..(i - 1) : arr[j].fn # listener
  ELSE 0

\* network.ts:82-87: the unsubscribe function returned for `listener`
Unsubscribed(arr, listener) ==
  IF IndexOf(arr, listener) > 0
  THEN [i \in 1..(Len(arr) - 1) |-> IF i < IndexOf(arr, listener) THEN arr[i] ELSE arr[i + 1]]
  ELSE arr

\* the array after the listener function fn has been invoked
AfterCall(arr, fn) ==
  IF Unsubscribes(fn) = <<>> THEN arr ELSE Unsubscribed(arr, Unsubscribes(fn)[1])

\* network.ts:54  this.listeners.forEach(listener => listener(newNetworkState)):
\* forEach visits the indices below the length the array had at the start, and
\* calls the callback for those the array still has when their turn comes
RECURSIVE forEach(_, _, _, _, _)
forEach(k, len, arr, arg, calls) ==
  IF k > len THEN [arr |-> arr, calls |-> calls]
  ELSE IF k > Len(arr) THEN forEach(k + 1, len, arr, arg, calls)
  ELSE forEach(k + 1, len, AfterCall(arr, arr[k].fn), arg,
               Append(calls, [call |-> "listener", reg |-> arr[k].reg, arg |-> arg]))

\* no connectivity event has been handled since the listeners last changed
NoEvent == [registered |-> {}, calls |-> <<>>]

\* network.ts:54-59: the calls the NetInfo listener makes, in order
Notified(newNetworkState, process) ==
  [registered |-> {listeners[i].reg : i \in 1..Len(listeners)},
   calls |-> forEach(1, Len(listeners), listeners, newNetworkState, <<>>).calls
             \o (IF process
                 THEN <<[call |-> "processOfflineQueue", reg |-> 0, arg |-> newNetworkState]>>
                 ELSE <<>>)]

\* network.ts:40-60: the NetInfo listener.  processOfflineQueue returns at
\* once on an empty queue (network.ts:105-107).
NetInfoEvent(c, r) ==
  LET newNetworkState == [isConnected |-> OrFalse(c), isInternetReachable |-> OrFalse(r)]
      wasOffline == ~networkState.isConnected
      isNowOnline == newNetworkState.isConnected
  IN /\ networkState' = newNetworkState
     /\ listeners' = forEach(1, Len(listeners), listeners, newNetworkState, <<>>).arr
     /\ notified' = Notified(newNetworkState, ShouldProcess(wasOffline, isNowOnline))
     /\ IF ShouldProcess(wasOffline, isNowOnline) /\ Len(offlineQueue) # 0
        THEN /\ Len(runs) < MaxRuns
             /\ runs' = Append(runs, NewRun)
             /\ attempts' = [attempts EXCEPT ![offlineQueue[1].id] = @ + 1]
        ELSE UNCHANGED <<runs, attempts>>
     /\ UNCHANGED <<offlineQueue, retryCount, adds, load, disk, registrations>>
     /\ UNCHANGED <<storageVars, authVars, screenVars>>

\* network.ts:78-80 addNetworkListener(listener)
AddNetworkListener(listener) ==
  /\ Len(registrations) < MaxListeners
  /\ listeners' = Append(listeners, [fn |-> listener, reg |-> Len(registrations) + 1])
  /\ registrations' = Append(registrations, [fn |-> listener, unsubscribed |-> 0])
  /\ notified' = NoEvent
  /\ UNCHANGED <<networkState, disk, queueVars, storageVars, authVars, screenVars>>

\* network.ts:82-87: the function that the reg-th addNetworkListener call
\* returned is called
Unsubscribe(reg) ==
  /\ registrations[reg].unsubscribed < MaxUnsubscribeCalls
  /\ listeners' = Unsubscribed(listeners, registrations[reg].fn)
  /\ registrations' = [registrations EXCEPT ![reg].unsubscribed = @ + 1]
  /\ notified' = NoEvent
  /\ UNCHANGED <<networkState, disk, queueVars, storageVars, authVars, screenVars>>

\* network.ts:91-101 addToOfflineQueue up to the first await inside
\* StorageManager.addToOfflineQueue (storage.ts:152).  Every call queues a
\* payload (action, data) of its own.
AddToOfflineQueue ==
  /\ Len(adds) < MaxAdds
  /\ LET a == Len(adds) + 1
         payload == MaxPersisted + a
         queueItem == [id |-> MemoryId(a), payload |-> payload]
     IN /\ offlineQueue' = Append(offlineQueue, queueItem)
        /\ runs' = [r \in 1..Len(runs) |-> Pushed(runs[r], queueItem)]
        /\ retryCount' = (queueItem.id :> 0) @@ retryCount
        /\ adds' = Append(adds, [pc |-> "read", payload |-> payload, queue |-> <<>>])
  /\ UNCHANGED <<networkState, load, disk, attempts>>
  /\ UNCHANGED <<storageVars, uiVars>>

\* storage.ts:152: the read of 'offline_queue' completes
StorageAddRead(a) ==
  /\ adds[a].pc = "read"
  /\ adds' = [adds EXCEPT ![a].pc = "write", ![a].queue = ReadOfflineQueue]
  /\ UNCHANGED <<networkState, offlineQueue, retryCount, runs, load, disk, attempts>>
  /\ UNCHANGED <<storageVars, uiVars>>

\* storage.ts:153-159: push an item with an id of its own onto the list that
\* was read, and write the list back
StorageAddWrite(a) ==
  /\ adds[a].pc = "write"
  /\ disk' = setItem(OfflineQueueKey,
                     Append(adds[a].queue, [id |-> StorageId(a), payload |-> adds[a].payload]))
  /\ adds' = [adds EXCEPT ![a].pc = "done", ![a].queue = <<>>]
  /\ UNCHANGED <<networkState, offlineQueue, retryCount, runs, load, attempts>>
  /\ UNCHANGED <<storageVars, uiVars>>

\* network.ts:63 / storage.ts:165-167: the read of getOfflineQueue completes
LoadRead ==
  /\ load.pc = "read"
  /\ load' = [load EXCEPT !.pc = "assign", !.queue = ReadOfflineQueue]
  /\ UNCHANGED <<networkState, offlineQueue, retryCount, runs, adds, disk, attempts>>
  /\ UNCHANGED <<storageVars, uiVars>>

\* network.ts:63: initialize resumes and assigns the parsed list, a new array
\* of new item objects (none has a retryCount), to this.offlineQueue
LoadAssign ==
  /\ load.pc = "assign"
  /\ offlineQueue' = load.queue
  /\ runs' = [r \in 1..Len(runs) |-> Detached(runs[r])]
  /\ load' = [pc |-> "done", queue |-> <<>>, loaded |-> load.queue]
  /\ UNCHANGED <<networkState, retryCount, adds, disk, attempts>>
  /\ UNCHANGED <<storageVars, uiVars>>

\* network.ts:149-160: executeOfflineAction is the placeholder for the real
\* replay of an action; its promise resolves, or rejects, some time later
ExecOutcomes == {"resolve", "reject"}

\* network.ts:116-128: what the loop body does with the outcome
Processed(run, item, outcome) ==
  IF outcome = "resolve" \/ NextRetryCount(item.id) >= MaxRetries
  THEN Append(run.processedItems, item.id)
  ELSE run.processedItems

\* network.ts:131-139: after the loop, with this.offlineQueue filtered: the
\* first storage removal is requested, or there is none to make
AfterLoop(run) ==
  IF Len(run.processedItems) = 0
  THEN [run EXCEPT !.pc = "done", !.shared = FALSE]
  ELSE [run EXCEPT !.pc = "rm_read", !.rmIdx = 1, !.shared = FALSE]

\* network.ts:113-139: the awaited executeOfflineAction settles; the loop
\* body finishes and either the next element is attempted or the loop ends,
\* this.offlineQueue is filtered and the first storage removal is requested
ExecuteSettle(r, outcome) ==
  /\ runs[r].pc = "exec"
  /\ LET run == runs[r]
         item == run.arr[run.idx]
         done == [run EXCEPT !.processedItems = Processed(run, item, outcome)]
     IN /\ retryCount' = IF outcome = "reject"
                         THEN (item.id :> NextRetryCount(item.id)) @@ retryCount
                         ELSE retryCount
        /\ IF run.idx + 1 <= Len(run.arr)
           THEN /\ runs' = [runs EXCEPT ![r] = BeginAttempt(done, run.idx + 1)]
                /\ attempts' = [attempts EXCEPT ![run.arr[run.idx + 1].id] = @ + 1]
                /\ UNCHANGED offlineQueue
           ELSE /\ offlineQueue' = Without(offlineQueue, SeqToSet(done.processedItems))
                /\ runs' = [q \in 1..Len(runs) |->
                              IF q = r THEN AfterLoop(done) ELSE Detached(runs[q])]
                /\ UNCHANGED attempts
  /\ UNCHANGED <<networkState, adds, load, disk>>
  /\ UNCHANGED <<storageVars, uiVars>>

\* network.ts:138 / storage.ts:171: the read of 'offline_queue' completes
RemoveRead(r) ==
  /\ runs[r].pc = "rm_read"
  /\ runs' = [runs EXCEPT ![r].pc = "rm_write", ![r].queue = ReadOfflineQueue]
  /\ UNCHANGED <<networkState, offlineQueue, retryCount, adds, load, disk, attempts>>
  /\ UNCHANGED <<storageVars, uiVars>>

\* storage.ts:172-173, network.ts:137-146: write the list without itemId back;
\* then the next removal is requested, or the run ends
RemoveWrite(r) ==
  /\ runs[r].pc = "rm_write"
  /\ LET run == runs[r]
     IN /\ disk' = setItem(OfflineQueueKey,
                           Without(run.queue, {run.processedItems[run.rmIdx]}))
        /\ runs' = [runs EXCEPT ![r] =
                      IF run.rmIdx < Len(run.processedItems)
                      THEN [run EXCEPT !.pc = "rm_read", !.rmIdx = @ + 1, !.queue = <<>>]
                      ELSE [run EXCEPT !.pc = "done", !.queue = <<>>]]
  /\ UNCHANGED <<networkState, offlineQueue, retryCount, adds, load, attempts>>
  /\ UNCHANGED <<storageVars, uiVars>>

\* ------------------------------------------------- StorageManager, cache
\* In the cache specification a StorageManager call runs to its end before the
\* next one starts; makeRequest gives way while it awaits requestFn.

\* Option values: <<>> is undefined / null / not passed, <<v>> is the value v.
None == <<>>
Some(v) == <<v>>

\* The clock advances by a millisecond, a minute, or the cache time of
\* makeRequest.
TickSteps == {1, MsPerMinute, RequestCacheMinutes * MsPerMinute}

CacheKeys == {"k1"}

\* JavaScript values that are cached and returned, by their source text
Values == {"0", "'a'", "'b'"}

\* network.ts:172,198  if (cachedData): 0, '' and false are falsy
Truthy(v) == v \notin {"0", "''", "false"}

\* what setCache is passed as expirationMinutes
ExpirationArgs == {None, Some(0), Some(1)}

\* the errors makeRequest rejects with
RequestError == "Error: request failed"
StorageError == "Error: storage write failed"
NoConnectionError == "Error: No internet connection and no cached data available"

\* storage.ts:72,77  `cache_${key}`
CacheKey(key) == <<"cache_", key>>

\* storage.ts:29  JSON.stringify(cacheItem): a property whose value is
\* undefined is left out of the text
JSONstringify(cacheItem) ==
  IF cacheItem.expiresAt = None
  THEN [data |-> cacheItem.data, timestamp |-> cacheItem.timestamp]
  ELSE [data |-> cacheItem.data, timestamp |-> cacheItem.timestamp,
        expiresAt |-> cacheItem.expiresAt[1]]

\* storage.ts:40  JSON.parse(jsonValue): a property the text lacks is undefined
JSONparse(jsonValue) ==
  [data |-> jsonValue.data, timestamp |-> jsonValue.timestamp,
   expiresAt |-> IF "expiresAt" \in DOMAIN jsonValue THEN Some(jsonValue.expiresAt) ELSE None]

\* a setCache that gives every entry without expirationMinutes the cache time
\* of makeRequest
NewCacheItemDefaultExpiry(data, expirationMinutes) ==
  [data |-> data, timestamp |-> now,
   expiresAt |-> Some(now + (IF expirationMinutes # None /\ expirationMinutes[1] # 0
                             THEN expirationMinutes[1] ELSE RequestCacheMinutes) * MsPerMinute)]

\* storage.ts:67-71: expirationMinutes ? Date.now() + minutes * 60 * 1000 : undefined
NewCacheItem(data, expirationMinutes) ==
  [data |-> data, timestamp |-> now,
   expiresAt |-> IF expirationMinutes # None /\ expirationMinutes[1] # 0
                 THEN Some(now + expirationMinutes[1] * MsPerMinute)
                 ELSE None]

\* an expiry check that already fails at the deadline
ExpiredAtDeadline(cacheItem) ==
  cacheItem.expiresAt # None /\ cacheItem.expiresAt[1] # 0 /\ now >= cacheItem.expiresAt[1]

\* storage.ts:84  cacheItem.expiresAt && Date.now() > cacheItem.expiresAt
Expired(cacheItem) ==
  cacheItem.expiresAt # None /\ cacheItem.expiresAt[1] # 0 /\ now > cacheItem.expiresAt[1]

\* storage.ts:75-94 getCache: what it returns ...
getCache(key) ==
  IF isNull(CacheKey(key)) THEN None
  ELSE IF Expired(JSONparse(getItem(CacheKey(key)))) THEN None
  ELSE Some(JSONparse(getItem(CacheKey(key))).data)

\* ... and the storage it leaves (storage.ts:85)
AfterGetCache(key) ==
  IF ~isNull(CacheKey(key)) /\ Expired(JSONparse(getItem(CacheKey(key))))
  THEN removeItem(CacheKey(key))
  ELSE disk

\* storage.ts:66-73 setCache(key, data, expirationMinutes); AsyncStorage
\* accepts the write or rejects it, and then setItem rethrows (storage.ts:31-34)
SetCache(key, data, expirationMinutes, ok) ==
  /\ disk' = IF ok THEN setItem(CacheKey(key), JSONstringify(NewCacheItem(data, expirationMinutes)))
             ELSE disk
  /\ entry' = IF ok THEN [entry EXCEPT ![key] =
                            Some([data |-> data, minutes |-> expirationMinutes, at |-> now])]
              ELSE entry
  /\ result' = [op |-> "setCache", key |-> key, ok |-> ok]
  /\ UNCHANGED <<networkState, queueVars, uiVars, now, ticks, request, saved>>

\* storage.ts:75-94 getCache(key)
GetCache(key) ==
  /\ result' = [op |-> "getCache", key |-> key, value |-> getCache(key)]
  /\ disk' = AfterGetCache(key)
  /\ UNCHANGED <<networkState, queueVars, uiVars, now, ticks, request, entry, saved>>

NoResult == [op |-> "none"]

\* Date.now() moves on; `result` is of the present moment only
Tick(d) ==
  /\ ticks < MaxTicks
  /\ now' = now + d
  /\ ticks' = ticks + 1
  /\ result' = NoResult
  /\ UNCHANGED <<networkState, disk, queueVars, uiVars, cacheVars, saved>>

\* ------------------------------------------ NetworkManager.makeRequest
Resolved(v) == [settled |-> "resolve", value |-> v]
Rejected(e) == [settled |-> "reject", value |-> e]

\* network.ts:168-183: the answer of makeRequest while offline
OfflineAnswer(fallbackData, cacheKey) ==
  IF cacheKey # None /\ getCache(cacheKey[1]) # None /\ Truthy(getCache(cacheKey[1])[1])
  THEN Resolved(getCache(cacheKey[1])[1])
  ELSE IF fallbackData # None
  THEN Resolved(fallbackData[1])
  ELSE Rejected(NoConnectionError)

\* network.ts:194-205: the answer of makeRequest when the try block threw
FailureAnswer(cacheKey, error) ==
  IF cacheKey # None /\ getCache(cacheKey[1]) # None /\ Truthy(getCache(cacheKey[1])[1])
  THEN Resolved(getCache(cacheKey[1])[1])
  ELSE Rejected(error)

MakeRequestResult(offline, fallbackData, cacheKey, outcome, answer) ==
  [op |-> "makeRequest", offline |-> offline, fallbackData |-> fallbackData,
   cacheKey |-> cacheKey, outcome |-> outcome,
   settled |-> answer.settled, value |-> answer.value]

\* network.ts:163-186: makeRequest up to its end when offline, and up to
\* `await requestFn()` when online
MakeRequest(fallbackData, cacheKey) ==
  /\ request = None
  /\ IF isOffline
     THEN /\ result' = MakeRequestResult(TRUE, fallbackData, cacheKey, None,
                                         OfflineAnswer(fallbackData, cacheKey))
          /\ disk' = IF cacheKey # None THEN AfterGetCache(cacheKey[1]) ELSE disk
          /\ UNCHANGED request
     ELSE /\ request' = Some([fallbackData |-> fallbackData, cacheKey |-> cacheKey])
          /\ result' = [op |-> "requestFn"]
          /\ UNCHANGED disk
  /\ UNCHANGED <<networkState, queueVars, uiVars, now, ticks, entry, saved>>

\* what requestFn's promise settles with
RequestOutcomes == {<<"resolve", v>> : v \in Values} \cup {<<"reject", RequestError>>}

\* network.ts:186-205: requestFn has settled.  A result is cached for 30
\* minutes when a cacheKey was passed; a rejected request, and a cache write
\* that throws, end in the catch block.
MakeRequestSettle(outcome, ok) ==
  /\ request # None
  /\ LET cacheKey == request[1].cacheKey
         cached == outcome[1] = "resolve" /\ cacheKey # None /\ ok
         answer == IF outcome[1] = "reject" THEN FailureAnswer(cacheKey, outcome[2])
                   ELSE IF cacheKey # None /\ ~ok THEN FailureAnswer(cacheKey, StorageError)
                   ELSE Resolved(outcome[2])
     IN /\ result' = MakeRequestResult(FALSE, request[1].fallbackData, cacheKey,
                                       Some(outcome), answer)
        /\ disk' = IF cached
                   THEN setItem(CacheKey(cacheKey[1]),
                                JSONstringify(NewCacheItem(outcome[2], Some(RequestCacheMinutes))))
                   ELSE IF cacheKey # None THEN AfterGetCache(cacheKey[1])
                   ELSE disk
        /\ entry' = IF cached
                    THEN [entry EXCEPT ![cacheKey[1]] =
                            Some([data |-> outcome[2], minutes |-> Some(RequestCacheMinutes),
                                  at |-> now])]
                    ELSE entry
  /\ request' = None
  /\ UNCHANGED <<networkState, queueVars, uiVars, now, ticks, saved>>

\* ------------------------------------------------ StorageManager, drafts
\* storage.ts:117  type: 'post' | 'message' | 'listing'
DraftTypes == {"post", "message", "listing"}

\* what the screens save: an object with a text
DraftTexts == {"d1", "d2"}

\* storage.ts:118  `draft_${type}_${Date.now()}`
DraftKey(type) == <<"draft_", type, now>>

\* storage.ts:129  key.startsWith(`draft_${type}_`)
IsDraftKey(key, type) == Len(key) = 3 /\ key[1] = "draft_" /\ key[2] = type

\* storage.ts:119-123  {...data, createdAt: Date.now(), type}
NewDraft(type, text) == [text |-> text, createdAt |-> now, type |-> type]

\* storage.ts:134  {key, ...draft}
WithKey(key, draft) ==
  [key |-> key, text |-> draft.text, createdAt |-> draft.createdAt, type |-> draft.type]

\* storage.ts:117-124 saveDraft(type, data); the write succeeds, or
\* AsyncStorage rejects it and saveDraft rejects
SaveDraft(type, text, ok) ==
  /\ Len(saved) < MaxDrafts
  /\ disk' = IF ok THEN setItem(DraftKey(type), NewDraft(type, text)) ELSE disk
  /\ saved' = IF ok THEN Append(saved, WithKey(DraftKey(type), NewDraft(type, text)))
              ELSE saved
  /\ result' = [op |-> "saveDraft", ok |-> ok]
  /\ UNCHANGED <<networkState, queueVars, uiVars, now, ticks, cacheVars>>

\* storage.ts:126-143 getDrafts(type)
GetDrafts(type) ==
  /\ result' = [op |-> "getDrafts", type |-> type,
                drafts |-> {WithKey(key, getItem(key)) :
                              key \in {k \in DOMAIN disk : IsDraftKey(k, type)}}]
  /\ UNCHANGED <<networkState, disk, queueVars, uiVars, now, ticks, cacheVars, saved>>

\* storage.ts:145-147 deleteDraft(draftKey)
DeleteDraft(draftKey) ==
  /\ disk' = removeItem(draftKey)
  /\ saved' = SelectSeq(saved, LAMBDA draft : draft.key # draftKey)
  /\ result' = [op |-> "deleteDraft", key |-> draftKey]
  /\ UNCHANGED <<networkState, queueVars, uiVars, now, ticks, cacheVars>>

\* ------------------------------- StorageManager, clearCache and the rest
\* a cache that also drops the drafts
IsCacheOrDraftKey(key) == key[1] \in {"cache_", "draft_"}

\* storage.ts:99  key.startsWith('cache_')
IsCacheKey(key) == key[1] = "cache_"

\* storage.ts:98-100: the keys clearCache removes, and the storage it leaves
ClearedKeys == {key \in DOMAIN disk : IsCacheKey(key)}
AfterClearCache == [key \in (DOMAIN disk) \ ClearedKeys |-> disk[key]]

\* storage.ts:96-104 clearCache(): getAllKeys and multiRemove succeed, or one
\* of them rejects and nothing is removed; the catch block logs the error
ClearCache(ok) ==
  /\ disk' = IF ok THEN AfterClearCache ELSE disk
  /\ result' = [op |-> "clearCache", ok |-> ok, settled |-> "resolve",
                removed |-> IF ok THEN ClearedKeys ELSE {}]
  /\ UNCHANGED <<networkState, queueVars, uiVars, now, ticks, cacheVars, saved>>

\* App.tsx:34-49 initializeApp(): getCurrentState() reads the network state,
\* then clearCache() is awaited
InitializeApp(ok) ==
  /\ disk' = IF ok THEN AfterClearCache ELSE disk
  /\ result' = [op |-> "initializeApp", ok |-> ok, settled |-> "resolve"]
  /\ UNCHANGED <<networkState, queueVars, uiVars, now, ticks, cacheVars, saved>>

\* storage.ts:108,112  `pref_${key}`
PrefKey(key) == <<"pref_", key>>

PrefNames == {"theme"}

\* storage.ts:107-109 setUserPreference(key, value)
SetUserPreference(key, value, ok) ==
  /\ disk' = IF ok THEN setItem(PrefKey(key), value) ELSE disk
  /\ result' = [op |-> "setUserPreference", ok |-> ok]
  /\ UNCHANGED <<networkState, queueVars, uiVars, now, ticks, cacheVars, saved>>

\* ---------------------------------------- StorageManager, recent searches
\* storage.ts:184  type: 'posts' | 'marketplace' | 'users'
RecentTypes == {"posts", "marketplace", "users"}

\* storage.ts:186,202,206  `recent_${type}`
RecentKey(type) == <<"recent_", type>>

\* storage.ts:187,202  await this.getItem(recentKey) || []
getRecentSearches(type) ==
  IF isNull(RecentKey(type)) THEN <<>> ELSE getItem(RecentKey(type))

\* The queries are numbered.  The list an earlier run of the app left for
\* 'posts' holds the queries 1..n, 1 being the latest; the searches of this
\* run are for the first of them, for the last of a full list, and for a new
\* one.
Queries == {1, MaxRecent, MaxRecent + 1}
StoredRecent(n) == [i \in 1..n |-> i]

Min(a, b) == IF a < b THEN a ELSE b

\* an add that does not look for the query in the list
UpdatedUnfiltered(recent, query) ==
  SubSeq(<<query>> \o recent, 1, Min(MaxRecent, Len(<<query>> \o recent)))

\* storage.ts:190-193: [query, ...recent.filter(item => item !== query)].slice(0, 10)
Updated(recent, query) ==
  SubSeq(<<query>> \o SelectSeq(recent, LAMBDA item : item # query), 1,
         Min(MaxRecent, Len(<<query>> \o SelectSeq(recent, LAMBDA item : item # query))))

\* storage.ts:184-199 addRecentSearch(query, type); a write that AsyncStorage
\* rejects is logged and the list stays as it was
AddRecentSearch(query, type, ok) ==
  /\ disk' = IF ok THEN setItem(RecentKey(type), Updated(getRecentSearches(type), query))
             ELSE disk
  /\ result' = [op |-> "addRecentSearch", query |-> query, type |-> type, ok |-> ok]
  /\ UNCHANGED <<networkState, queueVars, uiVars, now, ticks, cacheVars, saved>>

\* storage.ts:201-203 getRecentSearches(type)
GetRecentSearches(type) ==
  /\ result' = [op |-> "getRecentSearches", type |-> type, recent |-> getRecentSearches(type)]
  /\ UNCHANGED <<networkState, disk, queueVars, uiVars, now, ticks, cacheVars, saved>>

\* storage.ts:205-207 clearRecentSearches(type)
ClearRecentSearches(type) ==
  /\ disk' = removeItem(RecentKey(type))
  /\ result' = [op |-> "clearRecentSearches", type |-> type]
  /\ UNCHANGED <<networkState, queueVars, uiVars, now, ticks, cacheVars, saved>>

\* ---------------------------------------------------------- AuthProvider
\* the users of the identity service
Uids == {"u1", "u2"}

\* what onAuthStateChanged passes to its callback: a user, or null
FirebaseUsers == {None} \cup {Some(uid) : uid \in Uids}

\* part_004:488-495  userData
UserData(firebaseUser) == [uid |-> firebaseUser[1]]

\* part_004:483-502: the identity service reports an auth state and the
\* callback runs to its end, or to `await firebaseUser.getIdTokenResult()`
AuthStateChanged(firebaseUser) ==
  /\ Len(callbacks) < MaxAuthEvents
  /\ IF firebaseUser # None
     THEN /\ callbacks' = Append(callbacks, [pc |-> "token", firebaseUser |-> firebaseUser])
          /\ UNCHANGED <<user, loading>>
     ELSE /\ callbacks' = Append(callbacks, [pc |-> "done", firebaseUser |-> firebaseUser])
          /\ user' = None
          /\ loading' = FALSE
  /\ UNCHANGED <<networkState, disk, queueVars, storageVars, listenerVars, screenVars>>

\* what the promise of getIdTokenResult settles with
TokenOutcomes == {"resolve", "reject"}

\* part_004:486-501: getIdTokenResult has settled.  With the token result the
\* callback sets the user it was called with; a rejection ends the callback
\* before it sets anything.
IdTokenSettle(i, outcome) ==
  /\ callbacks[i].pc = "token"
  /\ IF outcome = "resolve"
     THEN /\ user' = Some(UserData(callbacks[i].firebaseUser))
          /\ loading' = FALSE
          /\ callbacks' = [callbacks EXCEPT ![i].pc = "done"]
     ELSE /\ callbacks' = [callbacks EXCEPT ![i].pc = "rejected"]
          /\ UNCHANGED <<user, loading>>
  /\ UNCHANGED <<networkState, disk, queueVars, storageVars, listenerVars, screenVars>>

\* part_002:17-37 RootNavigator: what it renders
RootNavigator ==
  IF loading THEN "ActivityIndicator" ELSE IF user # None THEN "Main" ELSE "Auth"

\* ------------------------------------------------------------ ChatScreen
\* sendMessage reads inputText, sending and conversationId as of the latest
\* render; the screen is taken to have rendered between two events.

\* part_004:38-43: the state of a ChatScreen that has just mounted.  alert is
\* the alert shown last and lastCall how the last sendMessage call went on.
NewChat ==
  [inputText |-> "", sending |-> FALSE, conversationId |-> None,
   alert |-> None, lastCall |-> "none"]

\* what the user types
InputTexts == {"  ", " hi "}

\* part_004:182,190  inputText.trim()
Trim(text) == IF text \in {"", "  "} THEN "" ELSE IF text = " hi " THEN "hi" ELSE text

FailedToLoad == "Failed to load conversation"
NoConnection == "No Connection"
FailedToSend == "Failed to send message. Please try again."

\* the TextInput calls setInputText
ChangeText(text) ==
  /\ chat' = [chat EXCEPT !.inputText = text]
  /\ UNCHANGED <<networkState, disk, queueVars, storageVars, authVars, listenerVars,
                 loaderVars, sends, firestore>>

\* part_004:87-132 loadOrCreateConversation(), for a signed-in user: the
\* conversation is found or created and setConversationId is called, or a
\* database call rejects and the alert is shown
LoadOrCreateConversation(ok) ==
  /\ user # None
  /\ chat.conversationId = None
  /\ chat' = IF ok THEN [chat EXCEPT !.conversationId = Some("c1")]
             ELSE [chat EXCEPT !.alert = Some(FailedToLoad)]
  /\ UNCHANGED <<networkState, disk, queueVars, storageVars, authVars, listenerVars,
                 loaderVars, sends, firestore>>

\* part_004:182  if (!inputText.trim() || !user || !conversationId || sending) return
Blocked ==
  Trim(chat.inputText) = "" \/ user = None \/ chat.conversationId = None \/ chat.sending

\* part_004:181-206 sendMessage(), to its early return or to the await of
\* the add to the messages collection.  The fields after pc are history.
SendMessage ==
  /\ IF Blocked
     THEN /\ chat' = [chat EXCEPT !.lastCall = "returned"]
          /\ UNCHANGED sends
     ELSE IF isOffline
     THEN /\ chat' = [chat EXCEPT !.lastCall = "offline", !.alert = Some(NoConnection)]
          /\ UNCHANGED sends
     ELSE /\ Len(sends) < MaxSends
          /\ chat' = [chat EXCEPT !.lastCall = "started", !.sending = TRUE, !.inputText = ""]
          /\ sends' = Append(sends, [pc |-> "add", messageText |-> Trim(chat.inputText),
                                     senderId |-> user[1].uid,
                                     conversationId |-> chat.conversationId,
                                     wasSending |-> chat.sending, wasOffline |-> isOffline])
  /\ UNCHANGED <<networkState, disk, queueVars, storageVars, authVars, listenerVars,
                 loaderVars, firestore>>

\* part_004:218-224: the catch block and the finally block
FailurePath(messageText) ==
  [chat EXCEPT !.alert = Some(FailedToSend), !.inputText = messageText, !.sending = FALSE]

\* part_004:206-224: the add to the messages collection has settled; the
\* update of the conversation document is requested, or the failure path runs
AddSettle(i, ok) ==
  /\ sends[i].pc = "add"
  /\ IF ok
     THEN /\ firestore' = [firestore EXCEPT !.messages =
                             Append(@, [send |-> i, content |-> sends[i].messageText,
                                        senderId |-> sends[i].senderId])]
          /\ sends' = [sends EXCEPT ![i].pc = "update"]
          /\ UNCHANGED chat
     ELSE /\ chat' = FailurePath(sends[i].messageText)
          /\ sends' = [sends EXCEPT ![i].pc = "failed"]
          /\ UNCHANGED firestore
  /\ UNCHANGED <<networkState, disk, queueVars, storageVars, authVars, listenerVars, loaderVars>>

\* part_004:209-224: the update of the conversation document has settled
UpdateSettle(i, ok) ==
  /\ sends[i].pc = "update"
  /\ IF ok
     THEN /\ firestore' = [firestore EXCEPT !.lastMessage = Some(sends[i].messageText)]
          /\ chat' = [chat EXCEPT !.sending = FALSE]
          /\ sends' = [sends EXCEPT ![i].pc = "done"]
     ELSE /\ chat' = FailurePath(sends[i].messageText)
          /\ sends' = [sends EXCEPT ![i].pc = "failed"]
          /\ UNCHANGED firestore
  /\ UNCHANGED <<networkState, disk, queueVars, storageVars, authVars, listenerVars, loaderVars>>

\* ------------------------------------ PerformanceUtils.createLazyLoader
\* performance.ts:111-113: the closure of a new loader
NewLoader == [currentPage |-> 0, loading |-> FALSE, hasMore |-> TRUE]

\* What the promise of loadFunction settles with: a page of that many
\* results, or an error
PageLengths == {0, PageSize - 1, PageSize}
LoadOutcomes == {<<"resolve", n>> : n \in PageLengths} \cup {<<"reject", 0>>}

\* performance.ts:117  if (loading || !hasMore)
MustReturnEmpty == loader.loading \/ ~loader.hasMore

\* performance.ts:116-124 loadMore(): it returns [] at once, or sets loading
\* and calls loadFunction(currentPage), whose promise it awaits.  `current`
\* is history: no reset() has been called since this call.
LoadMore ==
  /\ IF MustReturnEmpty
     THEN /\ returned' = Some(0)
          /\ UNCHANGED <<loader, loadCalls>>
     ELSE /\ Len(loadCalls) < MaxLoadCalls
          /\ loader' = [loader EXCEPT !.loading = TRUE]
          /\ loadCalls' = Append(loadCalls, [pc |-> "loading", page |-> loader.currentPage,
                                             current |-> TRUE, afterShort |->
                                               \E c \in 1..Len(loadCalls) :
                                                 /\ loadCalls[c].current
                                                 /\ loadCalls[c].pc = "short"])
          /\ UNCHANGED returned
  /\ UNCHANGED <<networkState, disk, queueVars, storageVars, authVars, listenerVars, chatVars>>

\* performance.ts:124-134: loadFunction has settled.  A page counts, a short
\* page also ends the list; the finally block clears loading, after an error
\* too, and then loadMore rejects with that error.
LoadSettle(c, outcome) ==
  /\ loadCalls[c].pc = "loading"
  /\ IF outcome[1] = "resolve"
     THEN /\ loader' = [currentPage |-> loader.currentPage + 1,
                        loading |-> FALSE,
                        hasMore |-> IF outcome[2] < PageSize THEN FALSE ELSE loader.hasMore]
          /\ loadCalls' = [loadCalls EXCEPT ![c].pc =
                             IF outcome[2] < PageSize THEN "short" ELSE "full"]
          /\ returned' = Some(outcome[2])
     ELSE /\ loader' = [loader EXCEPT !.loading = FALSE]
          /\ loadCalls' = [loadCalls EXCEPT ![c].pc = "threw"]
          /\ returned' = None
  /\ UNCHANGED <<networkState, disk, queueVars, storageVars, authVars, listenerVars, chatVars>>

\* performance.ts:137-141 reset()
Reset ==
  /\ loader' = NewLoader
  /\ loadCalls' = [c \in 1..Len(loadCalls) |-> [loadCalls[c] EXCEPT !.current = FALSE]]
  /\ returned' = None
  /\ UNCHANGED <<networkState, disk, queueVars, storageVars, authVars, listenerVars, chatVars>>

\* The state after `new NetworkManager()`: the listener is subscribed and the
\* load of the persisted queue is requested (network.ts:19-29, 38-63).
Constructed ==
  /\ networkState = [isConnected |-> FALSE, isInternetReachable |-> FALSE]
  /\ offlineQueue = <<>>
  /\ retryCount = <<>>
  /\ runs = <<>>
  /\ adds = <<>>
  /\ load = [pc |-> "read", queue |-> <<>>, loaded |-> <<>>]
  /\ attempts = [i \in 1..MaxId |-> 0]
  /\ now = StartTime
  /\ ticks = 0
  /\ request = None
  /\ result = NoResult
  /\ entry = [key \in CacheKeys |-> None]
  /\ saved = <<>>
  /\ user = None
  /\ loading = TRUE
  /\ callbacks = <<>>
  /\ listeners = <<>>
  /\ registrations = <<>>
  /\ notified = NoEvent
  /\ loader = NewLoader
  /\ loadCalls = <<>>
  /\ returned = None
  /\ chat = NewChat
  /\ sends = <<>>
  /\ firestore = [messages |-> <<>>, lastMessage |-> None]

\* ... with the storage an earlier run of the app left
Init ==
  /\ Constructed
  /\ \E n \in 0..MaxPersisted :
       disk = IF n = 0 THEN <<>> ELSE (OfflineQueueKey :> PersistedQueue(n))

Next ==
  \/ \E s \in NetInfoStates : NetInfoEvent(s[1], s[2])
  \/ AddToOfflineQueue
  \/ \E a \in 1..Len(adds) : StorageAddRead(a)
  \/ \E a \in 1..Len(adds) : StorageAddWrite(a)
  \/ LoadRead
  \/ LoadAssign
  \/ \E r \in 1..Len(runs), o \in ExecOutcomes : ExecuteSettle(r, o)
  \/ \E r \in 1..Len(runs) : RemoveRead(r)
  \/ \E r \in 1..Len(runs) : RemoveWrite(r)

Spec == Init /\ [][Next]_vars

\* The cache and makeRequest, in a run of the app that starts with nothing
\* stored.
InitCache == Init /\ disk = <<>>

NextCache ==
  \/ \E s \in NetInfoStates : NetInfoEvent(s[1], s[2])
  \/ \E d \in TickSteps : Tick(d)
  \/ \E key \in CacheKeys, data \in Values, m \in ExpirationArgs, ok \in BOOLEAN :
       SetCache(key, data, m, ok)
  \/ \E key \in CacheKeys : GetCache(key)
  \/ \E fallbackData \in {None} \cup {Some(v) : v \in Values},
        cacheKey \in {None} \cup {Some(k) : k \in CacheKeys} :
       MakeRequest(fallbackData, cacheKey)
  \/ \E outcome \in RequestOutcomes, ok \in BOOLEAN : MakeRequestSettle(outcome, ok)

SpecCache == InitCache /\ [][NextCache]_vars

\* The drafts, in a run of the app that starts with nothing stored.
NextDrafts ==
  \/ \E d \in TickSteps : Tick(d)
  \/ \E type \in DraftTypes, text \in DraftTexts, ok \in BOOLEAN : SaveDraft(type, text, ok)
  \/ \E type \in DraftTypes : GetDrafts(type)
  \/ \E draftKey \in DOMAIN disk : DeleteDraft(draftKey)

SpecDrafts == InitCache /\ [][NextDrafts]_vars

\* clearCache, in a run of the app that finds a draft, a preference, a list of
\* recent searches and, with n > 0, an offline queue in storage.
EarlierStorage(n) ==
  (<<"draft_", "post", 0>> :> [text |-> "d1", createdAt |-> 0, type |-> "post"])
    @@ (PrefKey("theme") :> "'a'")
    @@ (RecentKey("posts") :> StoredRecent(2))
    @@ (IF n = 0 THEN <<>> ELSE (OfflineQueueKey :> PersistedQueue(n)))

InitClear ==
  /\ Constructed
  /\ \E n \in 0..MaxPersisted : disk = EarlierStorage(n)

NextClear ==
  \/ \E d \in TickSteps : Tick(d)
  \/ \E key \in CacheKeys, data \in Values, m \in ExpirationArgs :
       SetCache(key, data, m, TRUE)
  \/ \E key \in CacheKeys : GetCache(key)
  \/ \E key \in CacheKeys : MakeRequest(None, Some(key))
  \/ \E key \in PrefNames, ok \in BOOLEAN : SetUserPreference(key, "'b'", ok)
  \/ \E ok \in BOOLEAN : ClearCache(ok)
  \/ \E ok \in BOOLEAN : InitializeApp(ok)

SpecClear == InitClear /\ [][NextClear]_vars

\* The recent searches, after a run of the app that left a list for 'posts'.
InitRecent ==
  /\ Constructed
  /\ \E n \in 0..MaxRecent :
       disk = IF n = 0 THEN <<>> ELSE (RecentKey("posts") :> StoredRecent(n))

NextRecent ==
  \/ \E query \in Queries, type \in {"posts", "users"}, ok \in BOOLEAN :
       AddRecentSearch(query, type, ok)
  \/ \E type \in {"posts", "users"} : GetRecentSearches(type)
  \/ \E type \in {"posts"} : ClearRecentSearches(type)

SpecRecent == InitRecent /\ [][NextRecent]_vars

\* The auth state, from the mount of AuthProvider (part_004:478-479).
NextAuth ==
  \/ \E firebaseUser \in FirebaseUsers : AuthStateChanged(firebaseUser)
  \/ \E i \in 1..Len(callbacks), outcome \in TokenOutcomes : IdTokenSettle(i, outcome)

SpecAuth == InitCache /\ [][NextAuth]_vars

\* The listeners of the network state, all kinds of them.
NextListeners ==
  \/ \E s \in NetInfoStates : NetInfoEvent(s[1], s[2])
  \/ \E listener \in ListenerFns : AddNetworkListener(listener)
  \/ \E reg \in 1..Len(registrations) : Unsubscribe(reg)

SpecListeners == InitCache /\ [][NextListeners]_vars

\* The listeners that leave the registrations alone, and their unsubscribe
\* functions.
NextUnsubscribe ==
  \/ \E s \in NetInfoStates : NetInfoEvent(s[1], s[2])
  \/ \E listener \in {"keep", "log"} : AddNetworkListener(listener)
  \/ \E reg \in 1..Len(registrations) : Unsubscribe(reg)

SpecUnsubscribe == InitCache /\ [][NextUnsubscribe]_vars

\* A lazy loader, from its creation.
NextLoader ==
  \/ LoadMore
  \/ \E c \in 1..Len(loadCalls), outcome \in LoadOutcomes : LoadSettle(c, outcome)
  \/ Reset

SpecLoader == InitCache /\ [][NextLoader]_vars

\* The chat screen of a user who signs in, with the network state changing.
NextChat ==
  \/ \E s \in NetInfoStates : NetInfoEvent(s[1], s[2])
  \/ \E firebaseUser \in {None, Some("u1")} : AuthStateChanged(firebaseUser)
  \/ \E i \in 1..Len(callbacks), outcome \in TokenOutcomes : IdTokenSettle(i, outcome)
  \/ \E text \in InputTexts : ChangeText(text)
  \/ \E ok \in BOOLEAN : LoadOrCreateConversation(ok)
  \/ SendMessage
  \/ \E i \in 1..Len(sends), ok \in BOOLEAN : AddSettle(i, ok)
  \/ \E i \in 1..Len(sends), ok \in BOOLEAN : UpdateSettle(i, ok)

SpecChat == InitCache /\ [][NextChat]_vars

\* ---------------------------------------------------------------- claims
LoopEnded(run) == run.pc \in {"rm_read", "rm_write", "done"}

\* the item object with this id, as the run saw it
ItemOf(run, id) == CHOOSE item \in SeqToSet(run.arr) : item.id = id

\* C1, the replay: in every state, each run of processOfflineQueue has
\* attempted the actions that were in the queue when it started, in queue
\* order, the attempt in flight being the only one not yet settled, and once
\* its loop has ended it has attempted all of them.
C1_Replay ==
  \A r \in 1..Len(runs) :
    LET run == runs[r]
    IN /\ \A j \in 1..Len(run.attempted) :
            j <= Len(run.snapshot) => run.attempted[j] = run.snapshot[j].id
       /\ run.pc = "exec" => Len(run.attempted) = run.idx
       /\ LoopEnded(run) => Len(run.attempted) >= Len(run.snapshot)

\* C1, the trigger: a step starts a run of processOfflineQueue over a
\* non-empty queue exactly when it takes isConnected from false to true, and
\* the run it starts is over the queue of that moment.
C1_Trigger ==
  /\ (Len(runs') # Len(runs)) <=>
       (~networkState.isConnected /\ networkState'.isConnected /\ Len(offlineQueue) # 0)
  /\ Len(runs') # Len(runs) =>
       /\ Len(runs') = Len(runs) + 1
       /\ runs'[Len(runs')].snapshot = offlineQueue
       /\ runs'[Len(runs')].attempted = <<offlineQueue[1].id>>

\* C1: a connectivity event that takes isConnected from false to true starts
\* processOfflineQueue, which attempts every action queued at that moment, one
\* at a time in queue order; no other event starts processing.
C1_ReplayOnReconnect == []C1_Replay /\ [][C1_Trigger]_vars

\* C1 witness: a run has ended its loop over a queue of two actions, both
\* attempted
C1_Witness ==
  \E r \in 1..Len(runs) :
    /\ LoopEnded(runs[r])
    /\ Len(runs[r].snapshot) = 2
    /\ Len(runs[r].attempted) = 2

CountedProcessed(id) == \E r \in 1..Len(runs) : id \in SeqToSet(runs[r].processedItems)

\* C2: no queued action is attempted more than 3 times, and an action whose
\* execution has thrown once or twice (and that no run has counted as
\* processed) is still in the offline queue.
C2_RetryUpToThree ==
  /\ \A id \in 1..MaxId : attempts[id] <= MaxRetries
  /\ \A id \in DOMAIN retryCount :
       (retryCount[id] >= 1 /\ retryCount[id] < MaxRetries /\ ~CountedProcessed(id))
         => id \in Ids(offlineQueue)

\* C3: once processOfflineQueue has finished (and no storage write of
\* addToOfflineQueue is still under way), no action it counted as processed
\* is in the in-memory queue or in the persisted 'offline_queue'.
C3_ProcessedIsGone ==
  \A r \in 1..Len(runs) :
    (runs[r].pc = "done" /\ \A a \in 1..Len(adds) : adds[a].pc = "done") =>
      \A id \in SeqToSet(runs[r].processedItems) :
        /\ id \notin Ids(offlineQueue)
        /\ ItemOf(runs[r], id).payload \notin Payloads(ReadOfflineQueue)

\* C4: once the startup load has completed, the manager has seen isConnected
\* go from false to true and no run is still executing, every action the
\* earlier run had persisted has been attempted.
C4_PersistedReplayed ==
  (/\ load.pc = "done"
   /\ networkState.isConnected
   /\ \A r \in 1..Len(runs) : runs[r].pc # "exec") =>
     \A i \in 1..Len(load.loaded) :
       load.loaded[i].id <= MaxPersisted => attempts[load.loaded[i].id] >= 1

\* the last successful setCache of this key, and the moment its entry expires
Entry(key) == entry[key][1]
Deadline(key) == Entry(key).at + Entry(key).minutes[1] * MsPerMinute

StoredWithExpiry(key) ==
  entry[key] # None /\ Entry(key).minutes # None /\ Entry(key).minutes[1] >= 1
StoredWithoutExpiry(key) == entry[key] # None /\ Entry(key).minutes = None

\* an entry that was stored and has not expired
Unexpired(key) ==
  StoredWithoutExpiry(key) \/ (StoredWithExpiry(key) /\ now <= Deadline(key))

\* C5: getCache of a key whose entry was stored by setCache(key, data, m),
\* m >= 1, returns data while the time is not later than the store time plus
\* m minutes; later it returns null and the 'cache_<key>' item is gone.
C5_ExpiryHonoured ==
  (result.op = "getCache" /\ StoredWithExpiry(result.key)) =>
     IF now <= Deadline(result.key)
     THEN result.value = Some(Entry(result.key).data)
     ELSE result.value = None /\ isNull(CacheKey(result.key))

\* C5 witness: getCache has just returned null for an entry whose time is up
C5_Witness ==
  /\ result.op = "getCache"
  /\ StoredWithExpiry(result.key)
  /\ now > Deadline(result.key)
  /\ result.value = None

\* C6: getCache of a key whose entry was stored without expirationMinutes
\* returns the data stored last, at any later time; getCache of a key that was
\* never stored returns null.
C6_NoExpiry ==
  result.op = "getCache" =>
     /\ entry[result.key] = None => result.value = None
     /\ StoredWithoutExpiry(result.key) => result.value = Some(Entry(result.key).data)

\* C6 witness: getCache has just returned the data of an entry without expiry
\* more than 30 minutes after it was stored
C6_Witness ==
  /\ result.op = "getCache"
  /\ StoredWithoutExpiry(result.key)
  /\ now > Entry(result.key).at + RequestCacheMinutes * MsPerMinute
  /\ result.value = Some(Entry(result.key).data)

\* C7: an offline makeRequest does not call requestFn; it returns the cached
\* value when an unexpired entry exists for cacheKey, whatever the value,
\* otherwise fallbackData when one was passed, otherwise it rejects with 'No
\* internet connection and no cached data available'.
C7_OfflineAnswer ==
  (result.op = "makeRequest" /\ result.offline) =>
     /\ result.outcome = None
     /\ IF result.cacheKey # None /\ Unexpired(result.cacheKey[1])
        THEN result.settled = "resolve" /\ result.value = Entry(result.cacheKey[1]).data
        ELSE (result.cacheKey = None \/ entry[result.cacheKey[1]] = None
                \/ StoredWithExpiry(result.cacheKey[1])) =>
             IF result.fallbackData # None
             THEN result.settled = "resolve" /\ result.value = result.fallbackData[1]
             ELSE result.settled = "reject" /\ result.value = NoConnectionError

\* C8: an online makeRequest whose requestFn resolves with r resolves with r,
\* and with a cacheKey r is stored under it for 30 minutes; an offline
\* makeRequest with that cacheKey within those 30 minutes returns r.
C8_OnlineResult ==
  /\ (result.op = "makeRequest" /\ ~result.offline /\ result.outcome[1][1] = "resolve") =>
        /\ result.settled = "resolve" /\ result.value = result.outcome[1][2]
        /\ result.cacheKey # None =>
             /\ ~isNull(CacheKey(result.cacheKey[1]))
             /\ JSONparse(getItem(CacheKey(result.cacheKey[1]))) =
                  [data |-> result.outcome[1][2], timestamp |-> now,
                   expiresAt |-> Some(now + RequestCacheMinutes * MsPerMinute)]
  /\ (/\ result.op = "makeRequest" /\ result.offline /\ result.cacheKey # None
      /\ entry[result.cacheKey[1]] # None
      /\ Entry(result.cacheKey[1]).minutes = Some(RequestCacheMinutes)
      /\ now <= Deadline(result.cacheKey[1])) =>
        result.settled = "resolve" /\ result.value = Entry(result.cacheKey[1]).data

\* C9: an online makeRequest whose requestFn rejects with e returns the
\* unexpired cached value for cacheKey when there is one and otherwise rejects
\* with e, with or without fallbackData.
C9_OnlineFailure ==
  (result.op = "makeRequest" /\ ~result.offline /\ result.outcome[1][1] = "reject") =>
     IF result.cacheKey # None /\ Unexpired(result.cacheKey[1])
     THEN result.settled = "resolve" /\ result.value = Entry(result.cacheKey[1]).data
     ELSE (result.cacheKey = None \/ entry[result.cacheKey[1]] = None
             \/ StoredWithExpiry(result.cacheKey[1])) =>
          result.settled = "reject" /\ result.value = result.outcome[1][2]

\* C10, saveDraft: a saveDraft that resolves adds one item to storage and
\* leaves every item that was stored as it was.
C10_SaveAddsOne ==
  (result'.op = "saveDraft" /\ result'.ok) =>
     /\ Cardinality(DOMAIN disk') = Cardinality(DOMAIN disk) + 1
     /\ \A key \in DOMAIN disk : key \in DOMAIN disk' /\ disk'[key] = disk[key]

\* C10, getDrafts: it returns the drafts of that type that were saved and not
\* deleted, each with its storage key.
C10_GetReturnsSaved ==
  result.op = "getDrafts" =>
     /\ result.drafts = {saved[i] : i \in {j \in 1..Len(saved) : saved[j].type = result.type}}
     /\ Cardinality(result.drafts) =
          Cardinality({j \in 1..Len(saved) : saved[j].type = result.type})

\* C10, deleteDraft: it removes the item with that key and no other.
C10_DeleteRemovesOne ==
  result'.op = "deleteDraft" =>
     /\ DOMAIN disk' = DOMAIN disk \ {result'.key}
     /\ \A key \in DOMAIN disk' : disk'[key] = disk[key]

\* C10: every saveDraft adds a new draft and alters no earlier one, getDrafts
\* returns exactly the drafts saved under the type and not deleted, with their
\* keys, and deleteDraft removes only the draft with that key.
C10_Drafts ==
  /\ [][C10_SaveAddsOne]_vars
  /\ []C10_GetReturnsSaved
  /\ [][C10_DeleteRemovesOne]_vars

AllCallbacksCompleted ==
  /\ Len(callbacks) > 0
  /\ \A i \in 1..Len(callbacks) : callbacks[i].pc = "done"

\* C11: once every auth-state callback has run to its end, user is non-null
\* exactly when the most recent auth-state event carried a user, and
\* RootNavigator renders Main when user is non-null and Auth otherwise.
C11_MainOnlyWhenSignedIn ==
  AllCallbacksCompleted =>
     /\ (user # None) <=> (callbacks[Len(callbacks)].firebaseUser # None)
     /\ RootNavigator = (IF user # None THEN "Main" ELSE "Auth")

\* C12: on a connectivity event every listener registered when the event
\* arrived is invoked exactly once, with the new state, and before
\* processOfflineQueue is called.
C12_EveryListenerNotified ==
  notified # NoEvent =>
     /\ \A reg \in notified.registered :
          Cardinality({k \in 1..Len(notified.calls) :
                         notified.calls[k].call = "listener" /\ notified.calls[k].reg = reg}) = 1
     /\ \A k \in 1..Len(notified.calls) :
          /\ notified.calls[k].arg = networkState
          /\ notified.calls[k].call = "processOfflineQueue" => k = Len(notified.calls)

\* C13: when initializeApp has completed, its storage calls having succeeded,
\* no expired cache entry is left in storage, and getCache still returns every
\* entry that has not expired.
C13_ClearsExpiredOnly ==
  (result.op = "initializeApp" /\ result.ok) =>
     \A key \in CacheKeys :
       /\ (StoredWithExpiry(key) /\ now > Deadline(key)) => isNull(CacheKey(key))
       /\ Unexpired(key) => getCache(key) = Some(Entry(key).data)

\* C14, a step of clearCache: the call resolves; when its storage calls
\* succeed, the keys that start with 'cache_' are gone and every other key has
\* the value it had; when one of them fails, storage is unchanged.
C14_ClearCacheStep ==
  result'.op = "clearCache" =>
     /\ result'.settled = "resolve"
     /\ IF result'.ok
        THEN /\ DOMAIN disk' = {key \in DOMAIN disk : key[1] # "cache_"}
             /\ \A key \in DOMAIN disk' : disk'[key] = disk[key]
        ELSE disk' = disk

\* C14: clearCache removes exactly the keys that start with 'cache_' and
\* leaves preferences, drafts, recent searches and the persisted offline queue
\* unchanged; a storage failure is swallowed and leaves storage unchanged.
C14_ClearCacheFrame == [][C14_ClearCacheStep]_vars

\* C14 witness: clearCache has removed a cache entry, and the draft, the
\* preference, the recent searches and the offline queue are still stored
C14_Witness ==
  /\ result.op = "clearCache"
  /\ result.ok
  /\ result.removed # {}
  /\ {<<"draft_", "post", 0>>, PrefKey("theme"), RecentKey("posts"), OfflineQueueKey}
        \subseteq DOMAIN disk

\* C15, the lists: no list of recent searches has more than 10 entries or
\* holds a query twice.
C15_Bounded ==
  \A type \in RecentTypes :
    /\ Len(getRecentSearches(type)) <= MaxRecent
    /\ \A i, j \in 1..Len(getRecentSearches(type)) :
         getRecentSearches(type)[i] = getRecentSearches(type)[j] => i = j

\* C15, a step of addRecentSearch that stores its list: the query is first,
\* the queries after it are queries of the old list in the order they had
\* there, none is dropped while there is room, and the lists of the other
\* types are as they were.
C15_AddStep ==
  \A added \in RecentTypes :
    (result'.op = "addRecentSearch" /\ result'.ok /\ result'.type = added) =>
       LET old == getRecentSearches(added)
           new == getRecentSearches(added)'
       IN /\ Len(new) >= 1 /\ new[1] = result'.query
          /\ \A i \in 2..Len(new) : \E a \in 1..Len(old) : old[a] = new[i]
          /\ \A i \in 2..(Len(new) - 1) :
               \E a \in 1..Len(old) :
                 old[a] = new[i] /\ \E b \in (a + 1)..Len(old) : old[b] = new[i + 1]
          /\ Len(new) =
               Min(MaxRecent, 1 + Cardinality({a \in 1..Len(old) : old[a] # result'.query}))
          /\ \A type \in RecentTypes \ {added} :
               getRecentSearches(type)' = getRecentSearches(type)

\* C15: after any sequence of addRecentSearch calls every list has at most 10
\* entries and no duplicate, the query added last is first, the other
\* queries keep their relative order, and an add for one type leaves the other
\* types' lists unchanged.
C15_RecentSearches == []C15_Bounded /\ [][C15_AddStep]_vars

\* C15 witness: a new query has been added to a full list
C15_Witness ==
  /\ result.op = "addRecentSearch"
  /\ result.ok
  /\ getRecentSearches(result.type) =
       <<MaxRecent + 1>> \o StoredRecent(MaxRecent - 1)

\* the id of the action a run is awaiting the execution of
Executing(run) == run.arr[run.idx].id

\* C16: no run of processOfflineQueue executes an action that another run is
\* executing at that moment or has counted as processed.
C16_NoActionInTwoRuns ==
  \A r1, r2 \in 1..Len(runs) :
    (r1 # r2 /\ runs[r2].pc = "exec") =>
       /\ ~(runs[r1].pc = "exec" /\ Executing(runs[r1]) = Executing(runs[r2]))
       /\ Executing(runs[r2]) \notin SeqToSet(runs[r1].processedItems)

\* C17: every action added with NetworkManager.addToOfflineQueue is in the
\* in-memory queue unless a run has executed it successfully or has seen it
\* fail for the third time.
C17_AddedStaysQueued ==
  \A a \in 1..Len(adds) :
    MemoryId(a) \in Ids(offlineQueue) \/ CountedProcessed(MemoryId(a))

\* the ids whose removeFromOfflineQueue call has completed
Removed ==
  UNION {{runs[r].processedItems[k] :
            k \in 1..(IF runs[r].pc = "done" THEN Len(runs[r].processedItems)
                       ELSE runs[r].rmIdx - 1)} : r \in 1..Len(runs)}

\* no addToOfflineQueue or removeFromOfflineQueue call of StorageManager is
\* under way
StorageQuiet ==
  /\ \A a \in 1..Len(adds) : adds[a].pc = "done"
  /\ \A r \in 1..Len(runs) : runs[r].pc \in {"exec", "done"}

\* C18: when no call is under way, the persisted 'offline_queue' holds every
\* action that was added and not removed (those the startup load found
\* included), and none that was removed.
C18_NoLostUpdate ==
  StorageQuiet =>
     /\ \A a \in 1..Len(adds) :
          StorageId(a) \notin Removed => StorageId(a) \in Ids(ReadOfflineQueue)
     /\ \A id \in Ids(load.loaded) : id \notin Removed => id \in Ids(ReadOfflineQueue)
     /\ \A id \in Removed : id \notin Ids(ReadOfflineQueue)

\* C19, the predicates: isOnline() is true exactly when the state has both
\* isConnected and isInternetReachable, and isOffline() is its negation.
C19_IsOnline ==
  /\ isOnline <=> (networkState.isConnected /\ networkState.isInternetReachable)
  /\ isOffline <=> ~isOnline

\* C19, the start: a step that starts a run of processOfflineQueue ends in a
\* state where isOnline() is true.
C19_StartsOnline == Len(runs') > Len(runs) => isOnline'

\* C19: isOnline() and isOffline() are as described, and processOfflineQueue
\* is never started while isOnline() is false.
C19_ProcessOnlyOnline == []C19_IsOnline /\ [][C19_StartsOnline]_vars

\* how often a function is in the listeners array
Registered(arr, fn) == Cardinality({i \in 1..Len(arr) : arr[i].fn = fn})

\* C20, a call of an unsubscribe function: the first call takes one
\* registration of its function out and leaves every other function's
\* registrations, a later call changes nothing.
C20_UnsubscribeStep ==
  \A reg \in 1..Len(registrations) :
    (/\ Len(registrations') = Len(registrations)
     /\ registrations'[reg].unsubscribed > registrations[reg].unsubscribed) =>
       IF registrations[reg].unsubscribed = 0
       THEN \A fn \in ListenerFns :
              Registered(listeners', fn) =
                Registered(listeners, fn) - (IF fn = registrations[reg].fn THEN 1 ELSE 0)
       ELSE listeners' = listeners

\* C20, later events: a connectivity event invokes a function once for each
\* of its registrations whose unsubscribe function has not been called.
C20_OnlySubscribedInvoked ==
  notified # NoEvent =>
     \A fn \in ListenerFns :
       Cardinality({k \in 1..Len(notified.calls) :
                      /\ notified.calls[k].call = "listener"
                      /\ registrations[notified.calls[k].reg].fn = fn}) =
       Cardinality({reg \in 1..Len(registrations) :
                      registrations[reg].fn = fn /\ registrations[reg].unsubscribed = 0})

\* C20: the unsubscribe function removes the registration it was returned
\* for and no other, that registration is not invoked afterwards, and a
\* second call changes nothing.
C20_UnsubscribeExact == [][C20_UnsubscribeStep]_vars /\ []C20_OnlySubscribedInvoked

\* the pages of the loads that were called since the last reset() and
\* succeeded, in call order
LoadedPages ==
  SelectSeq(loadCalls, LAMBDA call : call.current /\ call.pc \in {"full", "short"})

\* C21, the calls: at most one loadFunction call is in flight; the loads that
\* succeeded since the last reset() asked for pages 0, 1, 2, ...; and no
\* loadFunction call was made after a short page without a reset() between.
C21_Calls ==
  /\ Cardinality({c \in 1..Len(loadCalls) : loadCalls[c].pc = "loading"}) <= 1
  /\ \A i \in 1..Len(LoadedPages) : LoadedPages[i].page = i - 1
  /\ \A c \in 1..Len(loadCalls) : ~loadCalls[c].afterShort

\* C21, a loadMore while a load is in flight or the list has ended: it
\* returns [] and calls nothing.
C21_EmptyStep ==
  (MustReturnEmpty /\ returned' = Some(0) /\ loader' = loader) => loadCalls' = loadCalls

\* C21, a load that throws: the page is not advanced and the loader is not
\* loading afterwards.
C21_ThrowStep ==
  \A c \in 1..Len(loadCalls) :
    (loadCalls[c].pc = "loading" /\ Len(loadCalls') = Len(loadCalls)
       /\ loadCalls'[c].pc = "threw") =>
      loader'.currentPage = loader.currentPage /\ ~loader'.loading

\* C21: loadMore never has two loadFunction calls in flight, successful loads
\* ask for pages 0, 1, 2, ... without gap or repeat, nothing is loaded after a
\* short page until reset(), and a load that throws neither advances the page
\* nor leaves the loader loading.
C21_LazyLoader == []C21_Calls /\ [][C21_EmptyStep]_vars /\ [][C21_ThrowStep]_vars

\* C22, the failure path: a sendMessage that ended with the 'Failed to send
\* message' alert and the text restored has added no message document.
C22_FailureAddsNothing ==
  \A i \in 1..Len(sends) :
    sends[i].pc = "failed" =>
      \A d \in 1..Len(firestore.messages) : firestore.messages[d].send # i

\* C22, the guards: every sendMessage that went on to write was called with
\* a text that is not blank, a conversation loaded, no send in progress and
\* the manager online.
C22_SendsPassedGuards ==
  \A i \in 1..Len(sends) :
    /\ sends[i].messageText # ""
    /\ sends[i].conversationId # None
    /\ ~sends[i].wasSending
    /\ ~sends[i].wasOffline

\* C22, the writes: the database changes only when a write of a sendMessage
\* that passed the guards settles.
C22_WritesOnlyFromSends ==
  firestore' # firestore =>
    \E i \in 1..Len(sends) :
      sends[i].pc \in {"add", "update"} /\ sends'[i].pc # sends[i].pc

\* C22: a sendMessage that ends in its failure path has added no message, and
\* sendMessage writes nothing when the text is blank, no conversation is
\* loaded, a send is in progress or the manager is offline.
C22_AllOrNothing ==
  /\ []C22_FailureAddsNothing
  /\ []C22_SendsPassedGuards
  /\ [][C22_WritesOnlyFromSends]_vars

====
